---- MODULE Spec2Model ----
(***************************************************************************)
(* A model of the two components of the repository:                        *)
(*                                                                         *)
(*   BlameGutter (pkg/nuclide/blame-ui/lib/BlameGutter.js): the per-editor *)
(*   blame gutter, its asynchronous fetch, its loading spinner, the        *)
(*   reconciliation pass _updateBlame and the click handler _onClick;      *)
(*                                                                         *)
(*   DiagnosticsProviderBase (unnamed/part_000): the text-event            *)
(*   subscription and the update / invalidate channels.                    *)
(*                                                                         *)
(* The two classes share no state.  SpecGutter runs the fetch, the         *)
(* spinner, the reconciliation passes and destroy(); SpecClick runs the    *)
(* click handler (which reads only _blameProvider and _editor) against     *)
(* destroy(); SpecProvider runs one DiagnosticsProviderBase.               *)
(*                                                                         *)
(* Host objects (markers, decorations, the gutter, notifications, the      *)
(* dispatcher's subscriptions) are modelled by counting the calls the      *)
(* code makes on them.                                                     *)
(***************************************************************************)
EXTENDS Integers, Sequences, FiniteSets, TLC

\* Bounds of the model.
MaxLine == 1
MaxPasses == 2
MaxDestroyCalls == 2
MaxClicks == 2
MaxSetCalls == 3
MaxDisposeCalls == 2
MaxRegistrations == 3
MaxSiblingSteps == 5

\* Program constants.
BLAME_GUTTER_DEFAULT_WIDTH == 50
MS_TO_WAIT_BEFORE_SPINNER == 2000

VARIABLES
  \* ---- BlameGutter ----
  isDestroyed,              \* this._isDestroyed
  editorIsDestroyed,        \* this._editor.isDestroyed()
  hasGetUrlForRevision,     \* typeof blameProvider.getUrlForRevision === 'function'
  bufferLineToDecoration,   \* this._bufferLineToDecoration: line -> decoration id
  markerDestroyCalls,       \* per decoration id: calls of getMarker().destroy()
  decorationItem,           \* per decoration id: the item of its properties
  gutterDestroyCalls,       \* calls of this._gutter.destroy()
  gutterWidth,              \* gutterView.style.width as <<number, unit>>
  infoNotices,              \* calls of atom.notifications.addInfo
  loadingSpinnerIsPending,  \* this._loadingSpinnerIsPending
  loadingSpinnerDiv,        \* this._loadingSpinnerDiv is an attached element
  timer,                    \* the window.setTimeout handle: armed, fired, cleared
  spinnerAppends,           \* calls of gutterView.appendChild(spinner)
  fetch,                    \* the getBlameForEditor promise: pending, settled, rejected
  passes,                   \* reconciliation passes run so far
  lastPass,                 \* what the most recent pass was given and did
  destroyCalls,             \* calls of destroy()
  \* ---- BlameGutter._onClick ----
  clicks,                   \* one record per click delivered to the listener
  \* ---- DiagnosticsProviderBase ----
  allGrammarScopes,         \* this._allGrammarScopes
  grammarScopes,            \* this._grammarScopes
  subscriptions,            \* every subscription the dispatcher handed out
  currentEventSubscription, \* this._currentEventSubscription (0 is null)
  emitterDisposed,          \* this._emitter was disposed
  disposablesDisposed,      \* this._disposables was disposed
  handlers,                 \* the emitter's handlers per event name, in order
  registrations,            \* per event name: callbacks onMessage* registered
  hookCalls,                \* per event name: callbacks the new-subscriber hook got
  setCalls,                 \* calls of setRunOnTheFly
  disposeCalls,             \* calls of dispose()
  threw,                    \* the last operation raised an exception
  lastOp,                   \* the last operation called on the provider
  handleDisposed,           \* per event name and registration: its handle was disposed
  lastPublish,              \* the latest emit: its event, value and deliveries
  sibling                   \* a second provider on the same dispatcher

gutterVars == <<isDestroyed, editorIsDestroyed, hasGetUrlForRevision,
                bufferLineToDecoration, markerDestroyCalls, decorationItem,
                gutterDestroyCalls, gutterWidth, infoNotices,
                loadingSpinnerIsPending, loadingSpinnerDiv, timer,
                spinnerAppends, fetch, passes, lastPass, destroyCalls>>
clickVars == <<clicks>>
providerVars == <<allGrammarScopes, grammarScopes, subscriptions,
                  currentEventSubscription, emitterDisposed,
                  disposablesDisposed, handlers, registrations, hookCalls,
                  setCalls, disposeCalls, threw, lastOp, handleDisposed,
                  lastPublish, sibling>>
vars == <<gutterVars, clickVars, providerVars>>

-----------------------------------------------------------------------------
(* Values *)

\* An optional value (?string): <<>> is null / undefined, <<v>> is v.
None == <<>>
Some(v) == <<v>>

\* JavaScript truthiness of an optional string: null and "" are falsy.
Truthy(opt) == opt # None /\ opt[1] # ""

Lines == 0..MaxLine

\* BlameInfo values: {author: string, changeset: ?string}.
BlameInfos ==
  { [author |-> "alice", changeset |-> Some("abc123")],
    [author |-> "bob", changeset |-> None],
    [author |-> "christopher-x", changeset |-> Some("")] }

\* BlameForEditor values: Map<line, BlameInfo>.
BlameForEditors == UNION { [ls -> BlameInfos] : ls \in SUBSET Lines }

EmptyMap == [l \in {} |-> 0]

MapSet(m, k, v) == [x \in DOMAIN m \cup {k} |-> IF x = k THEN v ELSE m[x]]

MapDelete(m, k) == [x \in DOMAIN m \ {k} |-> m[x]]

SetMin(S) == CHOOSE x \in S : \A y \in S : x <= y

SeqRange(s) == { s[i] : i \in 1..Len(s) }

-----------------------------------------------------------------------------
(* BlameGutter: the reconciliation pass *)

\* Mutant of BlameLength: the separator between author and changeset is not
\* counted.
BlameLengthNoSeparator(blameInfo) ==
  Len(blameInfo.author)
    + (IF Truthy(blameInfo.changeset) THEN Len(blameInfo.changeset[1]) ELSE 0)

\* The label length of one entry, as the first loop of _updateBlame computes it.
BlameLength(blameInfo) ==
  Len(blameInfo.author)
    + (IF Truthy(blameInfo.changeset) THEN Len(blameInfo.changeset[1]) + 1 ELSE 0)

\* The first loop of _updateBlame: the running maximum over the entries.
RECURSIVE LongestBlame(_, _, _)
LongestBlame(blameForEditor, todo, longestBlame) ==
  IF todo = {} THEN longestBlame
  ELSE LET l == SetMin(todo)
           blameLength == BlameLength(blameForEditor[l])
       IN LongestBlame(blameForEditor, todo \ {l},
                       IF blameLength > longestBlame THEN blameLength
                       ELSE longestBlame)

\* The item of a decoration: the author span and, for an entry with a
\* changeset, the text node of numSpaces non-breaking spaces and the span.
CreateGutterItem(blameInfo, longestBlame) ==
  IF Truthy(blameInfo.changeset)
  THEN [author |-> blameInfo.author,
        numSpaces |-> Some(longestBlame - Len(blameInfo.author)
                             - Len(blameInfo.changeset[1])),
        changeset |-> Some(blameInfo.changeset[1])]
  ELSE [author |-> blameInfo.author, numSpaces |-> None, changeset |-> None]

\* Mutant of SetBlameLine: an existing decoration is destroyed and created
\* anew instead of being updated in place.
SetBlameLineRecreate(g, bufferLine, blameInfo, longestBlame) ==
  LET item == CreateGutterItem(blameInfo, longestBlame)
      id == Len(g.markerDestroyCalls) + 1
      g1 == IF bufferLine \in DOMAIN g.map
            THEN [g EXCEPT !.markerDestroyCalls[g.map[bufferLine]] = @ + 1,
                           !.removed = Append(@, g.map[bufferLine])]
            ELSE g
  IN [g1 EXCEPT !.map = MapSet(g.map, bufferLine, id),
                !.markerDestroyCalls = Append(@, 0),
                !.decorationItem = Append(@, item),
                !.created = @ \cup {id}]

\* g is the part of the state a pass works on: map, markerDestroyCalls,
\* decorationItem, gutterWidth, infoNotices, and the pass's own record of the
\* decorations it created, updated (setProperties) and removed.
SetBlameLine(g, bufferLine, blameInfo, longestBlame) ==
  LET item == CreateGutterItem(blameInfo, longestBlame)
  IN IF bufferLine \notin DOMAIN g.map
     THEN LET id == Len(g.markerDestroyCalls) + 1
          IN [g EXCEPT !.map = MapSet(g.map, bufferLine, id),
                       !.markerDestroyCalls = Append(@, 0),
                       !.decorationItem = Append(@, item),
                       !.created = @ \cup {id}]
     ELSE [g EXCEPT !.decorationItem[g.map[bufferLine]] = item,
                    !.updated = @ \cup {g.map[bufferLine]}]

\* Mutant of RemoveBlameLine: the marker is destroyed but the map entry stays.
RemoveBlameLineKeepEntry(g, bufferLine) ==
  IF bufferLine \notin DOMAIN g.map THEN g
  ELSE [g EXCEPT !.markerDestroyCalls[g.map[bufferLine]] = @ + 1,
                 !.removed = Append(@, g.map[bufferLine])]

\* _removeBlameLine: destroy the marker, delete the map entry.
RemoveBlameLine(g, bufferLine) ==
  IF bufferLine \notin DOMAIN g.map THEN g
  ELSE [g EXCEPT !.markerDestroyCalls[g.map[bufferLine]] = @ + 1,
                 !.map = MapDelete(g.map, bufferLine),
                 !.removed = Append(@, g.map[bufferLine])]

\* The second loop of _updateBlame, over the entries in ascending line order.
RECURSIVE SetBlameLines(_, _, _, _)
SetBlameLines(g, blameForEditor, todo, longestBlame) ==
  IF todo = {} THEN g
  ELSE LET l == SetMin(todo)
       IN SetBlameLines(SetBlameLine(g, l, blameForEditor[l], longestBlame),
                        blameForEditor, todo \ {l}, longestBlame)

\* The third loop of _updateBlame, over allPreviousBlamedLines.
RECURSIVE RemoveBlameLines(_, _)
RemoveBlameLines(g, todo) ==
  IF todo = {} THEN g
  ELSE LET l == SetMin(todo)
       IN RemoveBlameLines(RemoveBlameLine(g, l), todo \ {l})

UpdateGutterWidthToCharacterLength(g, characters) ==
  [g EXCEPT !.gutterWidth = <<characters, "ch">>]

\* Mutant of NoticeIfEmpty: the notice is shown when the gutter had no
\* decorations before the pass, whatever the snapshot holds.
NoticeIfMapEmpty(g, blameForEditor) ==
  IF DOMAIN g.map = {}
  THEN [g EXCEPT !.infoNotices = @ + 1]
  ELSE g

\* addInfo when the snapshot is empty.
NoticeIfEmpty(g, blameForEditor) ==
  IF Cardinality(DOMAIN blameForEditor) = 0
  THEN [g EXCEPT !.infoNotices = @ + 1]
  ELSE g

\* The lines of the previous map that the second loop did not delete from
\* allPreviousBlamedLines.
OutdatedLines(previousMap, blameForEditor) ==
  DOMAIN previousMap \ DOMAIN blameForEditor

UpdateBlame(g, blameForEditor) ==
  LET g1 == NoticeIfEmpty(g, blameForEditor)
      longestBlame == LongestBlame(blameForEditor, DOMAIN blameForEditor, 0)
      g2 == SetBlameLines(g1, blameForEditor, DOMAIN blameForEditor, longestBlame)
      g3 == RemoveBlameLines(g2, OutdatedLines(g.map, blameForEditor))
  IN UpdateGutterWidthToCharacterLength(g3, longestBlame)

\* The state a pass starts from.
PassInput ==
  [map |-> bufferLineToDecoration,
   markerDestroyCalls |-> markerDestroyCalls,
   decorationItem |-> decorationItem,
   gutterWidth |-> gutterWidth,
   infoNotices |-> infoNotices,
   created |-> {}, updated |-> {}, removed |-> <<>>]

\* _updateBlame(blameForEditor) as a step: the state after it, and the record
\* of the pass.
RunUpdateBlame(blameForEditor) ==
  LET g == UpdateBlame(PassInput, blameForEditor)
  IN /\ bufferLineToDecoration' = g.map
     /\ markerDestroyCalls' = g.markerDestroyCalls
     /\ decorationItem' = g.decorationItem
     /\ gutterWidth' = g.gutterWidth
     /\ infoNotices' = g.infoNotices
     /\ passes' = passes + 1
     /\ lastPass' = [n |-> passes + 1,
                     snapshot |-> blameForEditor,
                     previousMap |-> bufferLineToDecoration,
                     previousMarkers |-> Len(markerDestroyCalls),
                     previousNotices |-> infoNotices,
                     created |-> g.created,
                     updated |-> g.updated,
                     removed |-> g.removed]

NoPass ==
  [n |-> 0, snapshot |-> EmptyMap, previousMap |-> EmptyMap,
   previousMarkers |-> 0, previousNotices |-> 0,
   created |-> {}, updated |-> {}, removed |-> <<>>]

-----------------------------------------------------------------------------
(* BlameGutter: the loading spinner *)

\* The spinner of a gutter on which _addLoadingSpinner has not run yet.
NoSpinner == [isPending |-> FALSE, div |-> FALSE, timer |-> "none"]

\* _addLoadingSpinner on s = [isPending, div, timer]: nothing when a timer is
\* pending, else the timer of MS_TO_WAIT_BEFORE_SPINNER is armed.
AddLoadingSpinner(s) ==
  IF s.isPending
  THEN s
  ELSE [s EXCEPT !.isPending = TRUE, !.timer = "armed"]

\* Mutant of CleanUpLoadingSpinner: the flag is reset, the timeout is not
\* cleared.
CleanUpLoadingSpinnerKeepTimer(s) ==
  LET s1 == IF s.isPending THEN [s EXCEPT !.isPending = FALSE] ELSE s
  IN IF s1.div THEN [s1 EXCEPT !.div = FALSE] ELSE s1

\* _cleanUpLoadingSpinner on s = [isPending, div, timer].
CleanUpLoadingSpinner(s) ==
  LET s1 == IF s.isPending
            THEN [s EXCEPT !.timer = "cleared", !.isPending = FALSE]
            ELSE s
  IN IF s1.div THEN [s1 EXCEPT !.div = FALSE] ELSE s1

SpinnerState ==
  [isPending |-> loadingSpinnerIsPending, div |-> loadingSpinnerDiv,
   timer |-> timer]

RunCleanUpLoadingSpinner ==
  LET s == CleanUpLoadingSpinner(SpinnerState)
  IN /\ loadingSpinnerIsPending' = s.isPending
     /\ loadingSpinnerDiv' = s.div
     /\ timer' = s.timer

\* Mutant of TimerFires: the callback leaves _loadingSpinnerIsPending set.
TimerFiresKeepPending ==
  /\ timer = "armed"
  /\ timer' = "fired"
  /\ loadingSpinnerIsPending' = loadingSpinnerIsPending
  /\ loadingSpinnerDiv' = TRUE
  /\ spinnerAppends' = spinnerAppends + 1
  /\ UNCHANGED <<isDestroyed, editorIsDestroyed, hasGetUrlForRevision,
                 bufferLineToDecoration, markerDestroyCalls, decorationItem,
                 gutterDestroyCalls, gutterWidth, infoNotices, fetch, passes,
                 lastPass, destroyCalls>>
  /\ UNCHANGED <<clickVars, providerVars>>

\* The setTimeout callback of _addLoadingSpinner runs: the timer was armed and
\* not cleared.
TimerFires ==
  /\ timer = "armed"
  /\ timer' = "fired"
  /\ loadingSpinnerIsPending' = FALSE
  /\ loadingSpinnerDiv' = TRUE
  /\ spinnerAppends' = spinnerAppends + 1
  /\ UNCHANGED <<isDestroyed, editorIsDestroyed, hasGetUrlForRevision,
                 bufferLineToDecoration, markerDestroyCalls, decorationItem,
                 gutterDestroyCalls, gutterWidth, infoNotices, fetch, passes,
                 lastPass, destroyCalls>>
  /\ UNCHANGED <<clickVars, providerVars>>

-----------------------------------------------------------------------------
(* BlameGutter: the fetch, later passes, destroy *)

\* Mutant of FetchResolves: the continuation does not look at _isDestroyed.
FetchResolvesUnguarded(newBlame) ==
  /\ fetch = "pending"
  /\ fetch' = "settled"
  /\ RunCleanUpLoadingSpinner
  /\ RunUpdateBlame(newBlame)
  /\ UNCHANGED <<isDestroyed, editorIsDestroyed, hasGetUrlForRevision,
                 gutterDestroyCalls, spinnerAppends, destroyCalls>>
  /\ UNCHANGED <<clickVars, providerVars>>

\* Mutant of FetchResolves: the continuation does not clean the spinner up.
FetchResolvesNoCleanUp(newBlame) ==
  /\ fetch = "pending"
  /\ fetch' = "settled"
  /\ IF isDestroyed
     THEN UNCHANGED <<bufferLineToDecoration, markerDestroyCalls,
                      decorationItem, gutterWidth, infoNotices, passes,
                      lastPass>>
     ELSE RunUpdateBlame(newBlame)
  /\ UNCHANGED <<isDestroyed, editorIsDestroyed, hasGetUrlForRevision,
                 gutterDestroyCalls, spinnerAppends, destroyCalls,
                 loadingSpinnerIsPending, loadingSpinnerDiv, timer>>
  /\ UNCHANGED <<clickVars, providerVars>>

\* The continuation of _fetchAndDisplayBlame after the await: the promise
\* resolved with newBlame.
FetchResolves(newBlame) ==
  /\ fetch = "pending"
  /\ fetch' = "settled"
  /\ IF isDestroyed
     THEN UNCHANGED <<bufferLineToDecoration, markerDestroyCalls,
                      decorationItem, gutterWidth, infoNotices, passes,
                      lastPass, loadingSpinnerIsPending, loadingSpinnerDiv,
                      timer>>
     ELSE /\ RunCleanUpLoadingSpinner
          /\ RunUpdateBlame(newBlame)
  /\ UNCHANGED <<isDestroyed, editorIsDestroyed, hasGetUrlForRevision,
                 gutterDestroyCalls, spinnerAppends, destroyCalls>>
  /\ UNCHANGED <<clickVars, providerVars>>

\* The promise of getBlameForEditor rejected: the await throws and the rest of
\* _fetchAndDisplayBlame never runs.
FetchRejects ==
  /\ fetch = "pending"
  /\ fetch' = "rejected"
  /\ UNCHANGED <<isDestroyed, editorIsDestroyed, hasGetUrlForRevision,
                 bufferLineToDecoration, markerDestroyCalls, decorationItem,
                 gutterDestroyCalls, gutterWidth, infoNotices,
                 loadingSpinnerIsPending, loadingSpinnerDiv, timer,
                 spinnerAppends, passes, lastPass, destroyCalls>>
  /\ UNCHANGED <<clickVars, providerVars>>

\* A further reconciliation pass on a displaying gutter: _updateBlame called
\* again with a new snapshot.  Its one caller runs it on a live instance only.
UpdateBlameAgain(blameForEditor) ==
  /\ passes >= 1
  /\ passes < MaxPasses
  /\ ~isDestroyed
  /\ RunUpdateBlame(blameForEditor)
  /\ UNCHANGED <<isDestroyed, editorIsDestroyed, hasGetUrlForRevision,
                 gutterDestroyCalls, loadingSpinnerIsPending,
                 loadingSpinnerDiv, timer, spinnerAppends, fetch,
                 destroyCalls>>
  /\ UNCHANGED <<clickVars, providerVars>>

\* The loop of destroy() over this._bufferLineToDecoration.values().
DestroyMarkers(map, destroyCallsOfMarker) ==
  [id \in DOMAIN destroyCallsOfMarker |->
     IF \E l \in DOMAIN map : map[l] = id
     THEN destroyCallsOfMarker[id] + 1
     ELSE destroyCallsOfMarker[id]]

\* this._gutter.destroy() unless the editor is destroyed.
DestroyGutter(calls, editorDestroyed) ==
  IF ~editorDestroyed THEN calls + 1 ELSE calls

Destroy ==
  /\ destroyCalls < MaxDestroyCalls
  /\ destroyCalls' = destroyCalls + 1
  /\ isDestroyed' = TRUE
  /\ RunCleanUpLoadingSpinner
  /\ gutterDestroyCalls' = DestroyGutter(gutterDestroyCalls, editorIsDestroyed)
  /\ markerDestroyCalls' = DestroyMarkers(bufferLineToDecoration, markerDestroyCalls)
  /\ UNCHANGED <<editorIsDestroyed, hasGetUrlForRevision,
                 bufferLineToDecoration, decorationItem, gutterWidth,
                 infoNotices, spinnerAppends, fetch, passes, lastPass>>
  /\ UNCHANGED <<clickVars, providerVars>>

\* The host destroys the editor (the tab is closed).
EditorDestroyed ==
  /\ ~editorIsDestroyed
  /\ editorIsDestroyed' = TRUE
  /\ UNCHANGED <<isDestroyed, hasGetUrlForRevision, bufferLineToDecoration,
                 markerDestroyCalls, decorationItem, gutterDestroyCalls,
                 gutterWidth, infoNotices, loadingSpinnerIsPending,
                 loadingSpinnerDiv, timer, spinnerAppends, fetch, passes,
                 lastPass, destroyCalls>>
  /\ UNCHANGED <<clickVars, providerVars>>

\* The state after new BlameGutter(gutterName, editor, blameProvider): the
\* default pixel width, the spinner timer armed by _addLoadingSpinner, the
\* fetch in flight.
GutterConstructed(hasUrlFn) ==
  /\ isDestroyed = FALSE
  /\ editorIsDestroyed = FALSE
  /\ hasGetUrlForRevision = hasUrlFn
  /\ bufferLineToDecoration = EmptyMap
  /\ markerDestroyCalls = <<>>
  /\ decorationItem = <<>>
  /\ gutterDestroyCalls = 0
  /\ gutterWidth = <<BLAME_GUTTER_DEFAULT_WIDTH, "px">>
  /\ infoNotices = 0
  /\ loadingSpinnerIsPending = AddLoadingSpinner(NoSpinner).isPending
  /\ loadingSpinnerDiv = AddLoadingSpinner(NoSpinner).div
  /\ timer = AddLoadingSpinner(NoSpinner).timer
  /\ spinnerAppends = 0
  /\ fetch = "pending"
  /\ passes = 0
  /\ lastPass = NoPass
  /\ destroyCalls = 0
  /\ clicks = <<>>

-----------------------------------------------------------------------------
(* BlameGutter: _onClick *)

\* e.target: None (no target), Some(None) (an element without the hgChangeset
\* data attribute), Some(Some(c)) (an element carrying changeset c).
ClickTargets == { None, Some(None), Some(Some("")), Some(Some("abc123")),
                  Some(Some("def456")) }

\* What getUrlForRevision may resolve to.
ResolvedUrls == { None, Some(""), Some("https://example.com/D1") }

\* target.dataset[HG_CHANGESET_DATA_ATTRIBUTE], when it is truthy.
ClickedChangeset(target) ==
  IF target # None /\ Truthy(target[1]) THEN target[1] ELSE None

\* _onClick up to its await: the early returns, or the URL request.  The
\* field resolved is what getUrlForRevision resolved to, once it has.
OnClickStart(target) ==
  LET changeset == ClickedChangeset(target)
  IN [target |-> target,
      changeset |-> changeset,
      pc |-> IF changeset = None THEN "returned" ELSE "awaiting",
      urlRequests |-> IF changeset = None THEN 0 ELSE 1,
      resolved |-> None,
      navigations |-> <<>>,
      warnings |-> <<>>,
      tracks |-> <<>>]

\* Mutant of OnClickResume: the tracking call sits inside the branch that
\* opens the URL.
OnClickResumeTrackOnOpen(c, url) ==
  IF Truthy(url)
  THEN [c EXCEPT !.navigations = Append(@, url[1]),
                 !.tracks = Append(@, [event |-> "blame-gutter-click-revision",
                                       url |-> url]),
                 !.pc = "done"]
  ELSE [c EXCEPT !.warnings =
                   Append(@, [text |-> "No URL found for "
                                         \o c.changeset[1] \o ".",
                              dismissable |-> TRUE]),
                 !.pc = "done"]

\* _onClick after its await resolved with url.
OnClickResume(c, url) ==
  LET shown == IF Truthy(url)
               THEN [c EXCEPT !.navigations = Append(@, url[1])]
               ELSE [c EXCEPT !.warnings =
                       Append(@, [text |-> "No URL found for "
                                             \o c.changeset[1] \o ".",
                                  dismissable |-> TRUE])]
  IN [shown EXCEPT !.tracks = Append(@, [event |-> "blame-gutter-click-revision",
                                         url |-> url]),
                   !.pc = "done"]

\* The gutter view's click listener runs.  It is attached only when the
\* provider has getUrlForRevision, and removed when the gutter is destroyed.
Click(target) ==
  /\ hasGetUrlForRevision
  /\ gutterDestroyCalls = 0
  /\ ~editorIsDestroyed
  /\ Len(clicks) < MaxClicks
  /\ clicks' = Append(clicks, OnClickStart(target))
  /\ UNCHANGED <<gutterVars, providerVars>>

UrlResolves(i, url) ==
  /\ clicks[i].pc = "awaiting"
  /\ clicks' = [clicks EXCEPT
                  ![i] = [OnClickResume(clicks[i], url) EXCEPT
                            !.resolved = Some(url)]]
  /\ UNCHANGED <<gutterVars, providerVars>>

\* getUrlForRevision rejected: the await throws, nothing after it runs.
UrlRejects(i) ==
  /\ clicks[i].pc = "awaiting"
  /\ clicks' = [clicks EXCEPT ![i].pc = "rejected"]
  /\ UNCHANGED <<gutterVars, providerVars>>

-----------------------------------------------------------------------------
(* DiagnosticsProviderBase *)

UPDATE_EVENT == "update"
INVALIDATE_EVENT == "invalidate"
EventNames == {UPDATE_EVENT, INVALIDATE_EVENT}

\* options.grammarScopes values (none given is the empty set).
GrammarScopeSets == { {}, {"source.js"} }

\* Subscriber callbacks.
Callbacks == {"cb1", "cb2"}

\* The subscriptions of `subs` on which dispose() was never called.
LiveSubscriptions(subs) == { i \in 1..Len(subs) : subs[i].disposeCalls = 0 }

\* Mutant of DisposeEventSubscription: every live subscription of the
\* dispatcher is disposed.
DisposeEventSubscriptionAll(p) ==
  IF p.current # 0
  THEN [subscriptions |->
          [i \in 1..Len(p.subscriptions) |->
             IF p.subscriptions[i].disposeCalls = 0
             THEN [p.subscriptions[i] EXCEPT !.disposeCalls = 1]
             ELSE p.subscriptions[i]],
        current |-> 0]
  ELSE p

\* Mutant of DisposeEventSubscription: the reference is not reset to null.
DisposeEventSubscriptionKeepRef(p) ==
  IF p.current # 0
  THEN [p EXCEPT !.subscriptions[p.current].disposeCalls = @ + 1]
  ELSE p

\* p is [subscriptions, current]: the dispatcher's subscriptions and
\* this._currentEventSubscription.
DisposeEventSubscription(p) ==
  IF p.current # 0
  THEN [p EXCEPT !.subscriptions[p.current].disposeCalls = @ + 1,
                 !.current = 0]
  ELSE p

\* Mutant of DispatcherSubscription: the two branches of shouldRunOnTheFly
\* are exchanged.
DispatcherSubscriptionSwapped(shouldRunOnTheFly, allScopes, scopes) ==
  [kind |-> IF shouldRunOnTheFly THEN "save" ELSE "change",
   any |-> allScopes,
   scopes |-> IF allScopes THEN {} ELSE scopes]

\* The dispatcher method _subscribeToTextEditorEvent picks: onAnyFileChange,
\* onFileChange, onAnyFileSave or onFileSave.
DispatcherSubscription(shouldRunOnTheFly, allScopes, scopes) ==
  [kind |-> IF shouldRunOnTheFly THEN "change" ELSE "save",
   any |-> allScopes,
   scopes |-> IF allScopes THEN {} ELSE scopes]

\* Mutant of SubscribeToTextEditorEvent: the old subscription is disposed
\* after the dispatcher has handed out the new one.
SubscribeThenDispose(p, shouldRunOnTheFly, allScopes, scopes) ==
  LET d == DispatcherSubscription(shouldRunOnTheFly, allScopes, scopes)
      subscription ==
        [kind |-> d.kind, any |-> d.any, scopes |-> d.scopes,
         requested |-> shouldRunOnTheFly, disposeCalls |-> 0,
         liveBefore |-> Cardinality(LiveSubscriptions(p.subscriptions))]
      p1 == DisposeEventSubscription(p)
  IN [subscriptions |-> Append(p1.subscriptions, subscription),
      current |-> Len(p1.subscriptions) + 1]

\* requested records the argument of the call; liveBefore records how many
\* of the subscriptions the dispatcher handed out were undisposed
\* at the moment the dispatcher was asked for the new one.
SubscribeToTextEditorEvent(p, shouldRunOnTheFly, allScopes, scopes) ==
  LET p1 == DisposeEventSubscription(p)
      d == DispatcherSubscription(shouldRunOnTheFly, allScopes, scopes)
      subscription ==
        [kind |-> d.kind, any |-> d.any, scopes |-> d.scopes,
         requested |-> shouldRunOnTheFly, disposeCalls |-> 0,
         liveBefore |-> Cardinality(LiveSubscriptions(p1.subscriptions))]
  IN [subscriptions |-> Append(p1.subscriptions, subscription),
      current |-> Len(p1.subscriptions) + 1]

ProviderSubscriptionState ==
  [subscriptions |-> subscriptions, current |-> currentEventSubscription]

SetRunOnTheFly(runOnTheFly) ==
  /\ setCalls < MaxSetCalls
  /\ setCalls' = setCalls + 1
  /\ LET p == SubscribeToTextEditorEvent(ProviderSubscriptionState, runOnTheFly,
                                         allGrammarScopes, grammarScopes)
     IN /\ subscriptions' = p.subscriptions
        /\ currentEventSubscription' = p.current
  /\ threw' = FALSE
  /\ lastOp' = "setRunOnTheFly"
  /\ UNCHANGED <<allGrammarScopes, grammarScopes, emitterDisposed,
                 disposablesDisposed, handlers, registrations, hookCalls,
                 disposeCalls, handleDisposed, lastPublish>>
  /\ UNCHANGED <<gutterVars, clickVars, sibling>>

\* Mutant of EmitterDispose: the handlers stay registered.
EmitterDisposeKeepHandlers(h) == h

\* Emitter.dispose() drops every handler; disposing again changes nothing.
EmitterDispose(h) == [e \in EventNames |-> <<>>]

ProviderDispose ==
  /\ disposeCalls < MaxDisposeCalls
  /\ disposeCalls' = disposeCalls + 1
  /\ emitterDisposed' = TRUE
  /\ handlers' = EmitterDispose(handlers)
  /\ disposablesDisposed' = TRUE
  /\ LET p == DisposeEventSubscription(ProviderSubscriptionState)
     IN /\ subscriptions' = p.subscriptions
        /\ currentEventSubscription' = p.current
  /\ threw' = FALSE
  /\ lastOp' = "dispose"
  /\ UNCHANGED <<allGrammarScopes, grammarScopes, registrations, hookCalls,
                 setCalls, handleDisposed, lastPublish>>
  /\ UNCHANGED <<gutterVars, clickVars, sibling>>

\* Mutant of NewSubscriberHook: the hook runs for the first registration of a
\* channel only.
NewSubscriberHookFirstOnly(calls, event, callback) ==
  IF calls[event] = <<>>
  THEN [calls EXCEPT ![event] = Append(@, callback)]
  ELSE calls

\* The new-subscriber hook of onMessageUpdate / onMessageInvalidation:
\* this._newUpdateSubscriberCallback(callback), respectively
\* this._newInvalidateSubscriberCallback(callback).
NewSubscriberHook(calls, event, callback) ==
  [calls EXCEPT ![event] = Append(@, callback)]

\* Mutant of Emit: the handlers of both event names are called.
EmitToAll(h, event, value) ==
  [i \in 1..Len(h[UPDATE_EVENT] \o h[INVALIDATE_EVENT]) |->
     [callback |-> (h[UPDATE_EVENT] \o h[INVALIDATE_EVENT])[i], value |-> value]]

\* this._emitter.emit(event, value): the handlers of that event name are
\* called with the value, in the order they were added.
Emit(h, event, value) ==
  [i \in 1..Len(h[event]) |-> [callback |-> h[event][i], value |-> value]]

NoPublish ==
  [event |-> "", value |-> "", deliveries |-> <<>>, fromHook |-> FALSE,
   registering |-> "", callback |-> "", handlersBefore |-> 0]

\* Mutant of RegisterAndHook: the hook runs before emitter.on.
HookThenRegister(h, event, callback, hookPublishes) ==
  [handlers |-> [h EXCEPT ![event] = Append(@, callback)],
   published |->
     IF hookPublishes = None THEN None
     ELSE Some([event |-> hookPublishes[1].event,
                value |-> hookPublishes[1].value,
                deliveries |-> Emit(h, hookPublishes[1].event,
                                    hookPublishes[1].value),
                fromHook |-> TRUE,
                registering |-> event,
                callback |-> callback,
                handlersBefore |-> Len(h[event])])]

\* The body of onMessageUpdate / onMessageInvalidation on a live emitter:
\* emitter.on(event, callback), then the new-subscriber hook.  The hook is the
\* client's; hookPublishes is None when it publishes nothing and
\* Some([event, value]) when it calls publishMessageUpdate or
\* publishMessageInvalidation before it returns.
RegisterAndHook(h, event, callback, hookPublishes) ==
  LET h1 == [h EXCEPT ![event] = Append(@, callback)]
  IN [handlers |-> h1,
      published |->
        IF hookPublishes = None THEN None
        ELSE Some([event |-> hookPublishes[1].event,
                   value |-> hookPublishes[1].value,
                   deliveries |-> Emit(h1, hookPublishes[1].event,
                                       hookPublishes[1].value),
                   fromHook |-> TRUE,
                   registering |-> event,
                   callback |-> callback,
                   handlersBefore |-> Len(h[event])])]

\* onMessageUpdate(callback) / onMessageInvalidation(callback): emitter.on,
\* then the hook.  Emitter.on throws on a disposed emitter, and the hook is
\* then not reached.
OnMessageWithHook(event, callback, hookPublishes) ==
  /\ Len(registrations[UPDATE_EVENT]) + Len(registrations[INVALIDATE_EVENT])
       < MaxRegistrations
  /\ lastOp' = "onMessage"
  /\ IF emitterDisposed
     THEN /\ threw' = TRUE
          /\ UNCHANGED <<handlers, registrations, hookCalls, handleDisposed,
                         lastPublish>>
     ELSE LET r == RegisterAndHook(handlers, event, callback, hookPublishes)
          IN /\ threw' = FALSE
             /\ handlers' = r.handlers
             /\ registrations' = [registrations EXCEPT ![event] = Append(@, callback)]
             /\ handleDisposed' = [handleDisposed EXCEPT ![event] = Append(@, FALSE)]
             /\ hookCalls' = NewSubscriberHook(hookCalls, event, callback)
             /\ lastPublish' = IF r.published = None THEN lastPublish
                               ELSE r.published[1]
  /\ UNCHANGED <<allGrammarScopes, grammarScopes, subscriptions,
                 currentEventSubscription, emitterDisposed,
                 disposablesDisposed, setCalls, disposeCalls>>
  /\ UNCHANGED <<gutterVars, clickVars, sibling>>

\* A registration whose hook publishes nothing.
OnMessage(event, callback) == OnMessageWithHook(event, callback, None)

OnMessageUpdate(callback) == OnMessage(UPDATE_EVENT, callback)

OnMessageInvalidation(callback) == OnMessage(INVALIDATE_EVENT, callback)

OnMessageUpdateHook(callback, hookPublishes) ==
  OnMessageWithHook(UPDATE_EVENT, callback, hookPublishes)

OnMessageInvalidationHook(callback, hookPublishes) ==
  OnMessageWithHook(INVALIDATE_EVENT, callback, hookPublishes)

\* The values published.
Values == {"v1", "v2"}

\* What a new-subscriber hook may publish before it returns.
HookPublications ==
  {None} \cup { Some([event |-> e, value |-> "v1"]) : e \in EventNames }

\* publishMessageUpdate(update) / publishMessageInvalidation(message).
Publish(event, value) ==
  /\ lastPublish' = [event |-> event, value |-> value,
                     deliveries |-> Emit(handlers, event, value),
                     fromHook |-> FALSE, registering |-> "",
                     callback |-> "", handlersBefore |-> 0]
  /\ lastOp' = "publish"
  /\ threw' = FALSE
  /\ UNCHANGED <<allGrammarScopes, grammarScopes, subscriptions,
                 currentEventSubscription, emitterDisposed,
                 disposablesDisposed, handlers, registrations, hookCalls,
                 setCalls, disposeCalls, handleDisposed>>
  /\ UNCHANGED <<gutterVars, clickVars, sibling>>

PublishMessageUpdate(update) == Publish(UPDATE_EVENT, update)

PublishMessageInvalidation(message) == Publish(INVALIDATE_EVENT, message)

\* s without its first element equal to x.
RemoveFirst(s, x) ==
  IF \E i \in 1..Len(s) : s[i] = x
  THEN LET k == SetMin({ i \in 1..Len(s) : s[i] = x })
       IN SubSeq(s, 1, k - 1) \o SubSeq(s, k + 1, Len(s))
  ELSE s

\* s without any element equal to x.
RemoveAll(s, x) == SelectSeq(s, LAMBDA y : y # x)

\* The handle onMessage* returns is the emitter's Disposable, which takes the
\* handler function off the event name.  The Emitter is the host's: a release
\* that filters the handler list drops every registration of that function,
\* one that splices drops the first.  Both outcomes are allowed.
EmitterOffOutcomes(s, callback) ==
  { RemoveFirst(s, callback), RemoveAll(s, callback) }

\* dispose() on the handle of registration k of an event name.  A handle
\* disposed before does nothing, and nothing is taken off a disposed emitter.
DisposeHandle(event, k) ==
  /\ k \in 1..Len(registrations[event])
  /\ ~handleDisposed[event][k]
  /\ handleDisposed' = [handleDisposed EXCEPT ![event][k] = TRUE]
  /\ IF emitterDisposed
     THEN UNCHANGED handlers
     ELSE \E rest \in EmitterOffOutcomes(handlers[event], registrations[event][k]) :
            handlers' = [handlers EXCEPT ![event] = rest]
  /\ lastOp' = "disposeHandle"
  /\ threw' = FALSE
  /\ UNCHANGED <<allGrammarScopes, grammarScopes, subscriptions,
                 currentEventSubscription, emitterDisposed,
                 disposablesDisposed, registrations, hookCalls, setCalls,
                 disposeCalls, lastPublish>>
  /\ UNCHANGED <<gutterVars, clickVars, sibling>>

\* No second provider has been constructed.
NoSibling ==
  [constructed |-> FALSE, allGrammarScopes |-> FALSE, grammarScopes |-> {},
   current |-> 0, owned |-> {}, handlers |-> [e \in EventNames |-> <<>>],
   emitterDisposed |-> FALSE, calls |-> 0, lastOp |-> ""]

\* The calls made on the two providers so far, the sibling's construction
\* included.
SiblingSteps ==
  setCalls + disposeCalls + Len(registrations[UPDATE_EVENT])
    + Len(registrations[INVALIDATE_EVENT]) + sibling.calls
    + (IF sibling.constructed THEN 1 ELSE 0)

\* The dispatcher's subscriptions together with the sibling's
\* _currentEventSubscription.
SiblingSubscriptionState ==
  [subscriptions |-> subscriptions, current |-> sibling.current]

\* new DiagnosticsProviderBase(options) with no dispatcher argument, after the
\* first provider: getTextEventDispatcher() returns the one dispatcher, and
\* the constructor subscribes on it.  owned collects the subscriptions the
\* dispatcher handed to the sibling.
SiblingConstructed(enableForAllGrammars, scopes, shouldRunOnTheFly) ==
  /\ ~sibling.constructed
  /\ SiblingSteps < MaxSiblingSteps
  /\ LET p == SubscribeToTextEditorEvent(SiblingSubscriptionState,
                                         shouldRunOnTheFly,
                                         enableForAllGrammars, scopes)
     IN /\ subscriptions' = p.subscriptions
        /\ sibling' = [sibling EXCEPT !.constructed = TRUE,
                                      !.allGrammarScopes = enableForAllGrammars,
                                      !.grammarScopes = scopes,
                                      !.current = p.current,
                                      !.owned = {p.current},
                                      !.lastOp = "constructor"]
  /\ UNCHANGED <<allGrammarScopes, grammarScopes, currentEventSubscription,
                 emitterDisposed, disposablesDisposed, handlers,
                 registrations, hookCalls, setCalls, disposeCalls, threw,
                 lastOp, handleDisposed, lastPublish>>
  /\ UNCHANGED <<gutterVars, clickVars>>

\* setRunOnTheFly(runOnTheFly) on the sibling.
SiblingSetRunOnTheFly(runOnTheFly) ==
  /\ sibling.constructed
  /\ SiblingSteps < MaxSiblingSteps
  /\ LET p == SubscribeToTextEditorEvent(SiblingSubscriptionState, runOnTheFly,
                                         sibling.allGrammarScopes,
                                         sibling.grammarScopes)
     IN /\ subscriptions' = p.subscriptions
        /\ sibling' = [sibling EXCEPT !.current = p.current,
                                      !.owned = @ \cup {p.current},
                                      !.calls = @ + 1,
                                      !.lastOp = "setRunOnTheFly"]
  /\ UNCHANGED <<allGrammarScopes, grammarScopes, currentEventSubscription,
                 emitterDisposed, disposablesDisposed, handlers,
                 registrations, hookCalls, setCalls, disposeCalls, threw,
                 lastOp, handleDisposed, lastPublish>>
  /\ UNCHANGED <<gutterVars, clickVars>>

\* dispose() on the sibling.
SiblingDispose ==
  /\ sibling.constructed
  /\ SiblingSteps < MaxSiblingSteps
  /\ LET p == DisposeEventSubscription(SiblingSubscriptionState)
     IN /\ subscriptions' = p.subscriptions
        /\ sibling' = [sibling EXCEPT !.current = p.current,
                                      !.emitterDisposed = TRUE,
                                      !.handlers = EmitterDispose(@),
                                      !.calls = @ + 1,
                                      !.lastOp = "dispose"]
  /\ UNCHANGED <<allGrammarScopes, grammarScopes, currentEventSubscription,
                 emitterDisposed, disposablesDisposed, handlers,
                 registrations, hookCalls, setCalls, disposeCalls, threw,
                 lastOp, handleDisposed, lastPublish>>
  /\ UNCHANGED <<gutterVars, clickVars>>

\* onMessageUpdate(callback) on a sibling whose emitter is not disposed.
SiblingOnMessageUpdate(callback) ==
  /\ sibling.constructed
  /\ ~sibling.emitterDisposed
  /\ SiblingSteps < MaxSiblingSteps
  /\ sibling' = [sibling EXCEPT
                   !.handlers = RegisterAndHook(@, UPDATE_EVENT, callback,
                                                None).handlers,
                   !.calls = @ + 1,
                   !.lastOp = "onMessage"]
  /\ UNCHANGED <<allGrammarScopes, grammarScopes, subscriptions,
                 currentEventSubscription, emitterDisposed,
                 disposablesDisposed, handlers, registrations, hookCalls,
                 setCalls, disposeCalls, threw, lastOp, handleDisposed,
                 lastPublish>>
  /\ UNCHANGED <<gutterVars, clickVars>>

\* The state after new DiagnosticsProviderBase(options, dispatcher).
ProviderConstructed(enableForAllGrammars, scopes, shouldRunOnTheFly) ==
  /\ allGrammarScopes = enableForAllGrammars
  /\ grammarScopes = scopes
  /\ LET p == SubscribeToTextEditorEvent([subscriptions |-> <<>>, current |-> 0],
                                         shouldRunOnTheFly,
                                         enableForAllGrammars, scopes)
     IN /\ subscriptions = p.subscriptions
        /\ currentEventSubscription = p.current
  /\ emitterDisposed = FALSE
  /\ disposablesDisposed = FALSE
  /\ handlers = [e \in EventNames |-> <<>>]
  /\ registrations = [e \in EventNames |-> <<>>]
  /\ hookCalls = [e \in EventNames |-> <<>>]
  /\ setCalls = 0
  /\ disposeCalls = 0
  /\ threw = FALSE
  /\ lastOp = "constructor"
  /\ handleDisposed = [e \in EventNames |-> <<>>]
  /\ lastPublish = NoPublish
  /\ sibling = NoSibling

-----------------------------------------------------------------------------
(* Specifications *)

\* One BlameGutter: fetch, spinner, reconciliation passes, destroy.
InitGutter ==
  /\ GutterConstructed(TRUE)
  /\ ProviderConstructed(FALSE, {}, FALSE)

NextGutter ==
  \/ TimerFires
  \/ \E newBlame \in BlameForEditors : FetchResolves(newBlame)
  \/ FetchRejects
  \/ \E blameForEditor \in BlameForEditors : UpdateBlameAgain(blameForEditor)
  \/ Destroy
  \/ EditorDestroyed

SpecGutter == InitGutter /\ [][NextGutter]_vars

\* One BlameGutter: clicks on the gutter view against destroy().
InitClick ==
  /\ \E hasUrlFn \in BOOLEAN : GutterConstructed(hasUrlFn)
  /\ ProviderConstructed(FALSE, {}, FALSE)

NextClick ==
  \/ \E target \in ClickTargets : Click(target)
  \/ \E i \in 1..Len(clicks), url \in ResolvedUrls : UrlResolves(i, url)
  \/ \E i \in 1..Len(clicks) : UrlRejects(i)
  \/ Destroy
  \/ EditorDestroyed

SpecClick == InitClick /\ [][NextClick]_vars

\* One DiagnosticsProviderBase.
InitProvider ==
  /\ GutterConstructed(TRUE)
  /\ \E enableForAllGrammars \in BOOLEAN, scopes \in GrammarScopeSets,
        shouldRunOnTheFly \in BOOLEAN :
       ProviderConstructed(enableForAllGrammars, scopes, shouldRunOnTheFly)

NextProvider ==
  \/ \E runOnTheFly \in BOOLEAN : SetRunOnTheFly(runOnTheFly)
  \/ ProviderDispose
  \/ \E callback \in Callbacks : OnMessageUpdate(callback)
  \/ \E callback \in Callbacks : OnMessageInvalidation(callback)

SpecProvider == InitProvider /\ [][NextProvider]_vars

\* One DiagnosticsProviderBase: its two channels, with hooks that may
\* publish, publications, handle disposal and dispose().
InitChannels ==
  /\ GutterConstructed(TRUE)
  /\ ProviderConstructed(FALSE, {}, FALSE)

NextChannels ==
  \/ \E callback \in Callbacks, hookPublishes \in HookPublications :
       OnMessageUpdateHook(callback, hookPublishes)
  \/ \E callback \in Callbacks, hookPublishes \in HookPublications :
       OnMessageInvalidationHook(callback, hookPublishes)
  \/ \E update \in Values : PublishMessageUpdate(update)
  \/ \E message \in Values : PublishMessageInvalidation(message)
  \/ \E event \in EventNames, k \in 1..MaxRegistrations : DisposeHandle(event, k)
  \/ ProviderDispose

SpecChannels == InitChannels /\ [][NextChannels]_vars

-----------------------------------------------------------------------------
(* Properties of the reconciliation pass (SpecGutter) *)

\* The number of times id occurs in the sequence s.
Occurrences(s, id) == Cardinality({ i \in 1..Len(s) : s[i] = id })

\* C1: on a BlameGutter that is not destroyed, after every reconciliation pass
\* the key set of _bufferLineToDecoration is exactly the key set of the
\* snapshot the pass was given: no stale line, no missing line.
C1_MapKeysAreSnapshotKeys ==
  (lastPass.n >= 1 /\ ~isDestroyed) =>
    DOMAIN bufferLineToDecoration = DOMAIN lastPass.snapshot

\* A second pass ran whose snapshot dropped a line of the previous map and
\* brought a line the previous map did not have.
C1_Witness ==
  /\ lastPass.n >= 2
  /\ ~isDestroyed
  /\ DOMAIN lastPass.previousMap \ DOMAIN lastPass.snapshot # {}
  /\ DOMAIN lastPass.snapshot \ DOMAIN lastPass.previousMap # {}

\* C2: for consecutive snapshots S1 then S2, a line in both keeps its
\* decoration object (setProperties is called on it, its marker is not
\* destroyed), a line only in S1 has its marker destroyed exactly once and its
\* map entry removed, and markers and decorations are created for the lines
\* only in S2 and for no other.
C2_ReuseDestroyCreate ==
  lastPass.n >= 1 =>
    LET old == lastPass.previousMap
        new == lastPass.snapshot
        m == bufferLineToDecoration
        kept == DOMAIN old \cap DOMAIN new
        gone == DOMAIN old \ DOMAIN new
        fresh == DOMAIN new \ DOMAIN old
    IN /\ \A l \in kept :
            /\ l \in DOMAIN m
            /\ m[l] = old[l]
            /\ old[l] \in lastPass.updated
            /\ old[l] \notin lastPass.created
            /\ Occurrences(lastPass.removed, old[l]) = 0
            /\ ~isDestroyed => markerDestroyCalls[old[l]] = 0
       /\ \A l \in gone :
            /\ l \notin DOMAIN m
            /\ Occurrences(lastPass.removed, old[l]) = 1
            /\ markerDestroyCalls[old[l]] = 1
       /\ \A l \in fresh :
            /\ l \in DOMAIN m
            /\ m[l] \in lastPass.created
            /\ m[l] > lastPass.previousMarkers
       /\ Cardinality(lastPass.created) = Cardinality(fresh)
       /\ lastPass.updated = { old[l] : l \in kept }
       /\ SeqRange(lastPass.removed) = { old[l] : l \in gone }

\* A pass from S1 to S2 with a line in both, updated in place, and a line only
\* in S1, removed.
C2_Witness ==
  /\ lastPass.n >= 2
  /\ DOMAIN lastPass.previousMap \cap DOMAIN lastPass.snapshot # {}
  /\ DOMAIN lastPass.previousMap \ DOMAIN lastPass.snapshot # {}
  /\ lastPass.removed # <<>>
  /\ lastPass.updated # {}

\* C3: when destroy() ran before the pending fetch resolved, the resolution
\* changes nothing: no decoration or marker is created, updated or destroyed,
\* the map and the gutter width stay, the spinner state stays and no notice is
\* shown.
C3_LateFetchChangesNothing ==
  [][(isDestroyed /\ fetch = "pending" /\ fetch' = "settled") =>
       UNCHANGED <<bufferLineToDecoration, markerDestroyCalls, decorationItem,
                   gutterDestroyCalls, gutterWidth, infoNotices,
                   loadingSpinnerIsPending, loadingSpinnerDiv, timer,
                   spinnerAppends, passes, lastPass>>]_vars

\* The fetch resolved on a destroyed gutter.
C3_Witness ==
  /\ isDestroyed
  /\ fetch = "settled"
  /\ lastPass.n = 0
  /\ gutterWidth = <<BLAME_GUTTER_DEFAULT_WIDTH, "px">>

\* C6: a second destroy() call destroys no gutter and no marker again and
\* changes nothing else.
C6_SecondDestroyReleasesNothing ==
  [][(destroyCalls >= 1 /\ destroyCalls' = destroyCalls + 1) =>
       UNCHANGED <<isDestroyed, bufferLineToDecoration, markerDestroyCalls,
                   decorationItem, gutterDestroyCalls, gutterWidth,
                   infoNotices, loadingSpinnerIsPending, loadingSpinnerDiv,
                   timer, spinnerAppends>>]_vars

\* C8: a pass over an empty snapshot shows exactly one informational notice
\* and leaves the map empty, whatever the map held before; a pass over a
\* non-empty snapshot shows none.
C8_EmptySnapshotNotice ==
  lastPass.n >= 1 =>
    IF DOMAIN lastPass.snapshot = {}
    THEN /\ infoNotices = lastPass.previousNotices + 1
         /\ DOMAIN bufferLineToDecoration = {}
    ELSE infoNotices = lastPass.previousNotices

\* A pass over an empty snapshot ran on a gutter that showed decorations.
C8_Witness ==
  /\ lastPass.n >= 2
  /\ DOMAIN lastPass.snapshot = {}
  /\ DOMAIN lastPass.previousMap # {}
  /\ infoNotices >= 1

\* The rendered label width of an entry: the author, plus the changeset and
\* one separator when the entry has a (non-empty) changeset.
LabelWidth(blameInfo) ==
  IF blameInfo.changeset # None /\ blameInfo.changeset[1] # ""
  THEN Len(blameInfo.author) + Len(blameInfo.changeset[1]) + 1
  ELSE Len(blameInfo.author)

\* The largest label width of a snapshot, 0 for the empty one.
MaxLabelWidth(snapshot) ==
  IF DOMAIN snapshot = {} THEN 0
  ELSE CHOOSE w \in { LabelWidth(snapshot[l]) : l \in DOMAIN snapshot } :
         \A l \in DOMAIN snapshot : LabelWidth(snapshot[l]) <= w

\* C10: after a pass over S the gutter width is, in character units, the
\* largest label width of S (0 when S is empty), and every entry with a
\* changeset is padded with longestBlame - len(author) - len(changeset) >= 1
\* spaces.
C10_WidthAndPadding ==
  lastPass.n >= 1 =>
    LET S == lastPass.snapshot
        m == bufferLineToDecoration
    IN /\ gutterWidth = <<MaxLabelWidth(S), "ch">>
       /\ \A l \in DOMAIN S :
            (S[l].changeset # None /\ S[l].changeset[1] # "") =>
              /\ l \in DOMAIN m
              /\ decorationItem[m[l]].numSpaces # None
              /\ decorationItem[m[l]].numSpaces[1] >= 1
              /\ decorationItem[m[l]].numSpaces[1]
                   = MaxLabelWidth(S) - Len(S[l].author) - Len(S[l].changeset[1])

\* The pass over {0: alice/abc123, 1: bob/no changeset} set the width to 12ch.
C10_Witness ==
  /\ lastPass.n >= 1
  /\ lastPass.snapshot =
       [l \in {0, 1} |->
          IF l = 0 THEN [author |-> "alice", changeset |-> Some("abc123")]
          ELSE [author |-> "bob", changeset |-> None]]
  /\ gutterWidth = <<12, "ch">>
  /\ decorationItem[bufferLineToDecoration[0]].numSpaces = Some(1)

-----------------------------------------------------------------------------
(* Properties of the click handler (SpecClick) *)

\* C9: a click on a target carrying a changeset, once getUrlForRevision has
\* resolved: with null, exactly one dismissible warning naming the changeset
\* and no navigation; with a URL, exactly one navigation to it and no warning;
\* either way exactly one URL request and one tracking event.  A click whose
\* target carries no changeset requests no URL and shows, opens and tracks
\* nothing.
C9_ClickOutcome ==
  \A i \in 1..Len(clicks) :
    LET c == clicks[i]
        carries == c.target # None /\ c.target[1] # None /\ c.target[1][1] # ""
    IN /\ (carries /\ c.resolved = Some(None)) =>
            /\ c.warnings = << [text |-> "No URL found for " \o c.target[1][1] \o ".",
                                dismissable |-> TRUE] >>
            /\ c.navigations = <<>>
            /\ Len(c.tracks) = 1
            /\ c.urlRequests = 1
       /\ (carries /\ c.resolved # None /\ c.resolved[1] # None
             /\ c.resolved[1][1] # "") =>
            /\ c.navigations = << c.resolved[1][1] >>
            /\ c.warnings = <<>>
            /\ Len(c.tracks) = 1
            /\ c.urlRequests = 1
       /\ ~carries =>
            /\ c.urlRequests = 0
            /\ c.resolved = None
            /\ c.warnings = <<>>
            /\ c.navigations = <<>>
            /\ c.tracks = <<>>

\* One click resolved to null and another to a URL, both on changeset spans.
C9_Witness ==
  /\ \E i \in 1..Len(clicks) :
       /\ clicks[i].resolved = Some(None)
       /\ Len(clicks[i].warnings) = 1
  /\ \E i \in 1..Len(clicks) :
       /\ clicks[i].resolved = Some(Some("https://example.com/D1"))
       /\ Len(clicks[i].navigations) = 1

-----------------------------------------------------------------------------
(* Properties of DiagnosticsProviderBase (SpecProvider) *)

\* C4: through any sequence of setRunOnTheFly calls after construction exactly
\* one subscription obtained from the dispatcher is undisposed, the current
\* one; every earlier one was disposed once, and whenever the dispatcher was
\* asked for a subscription none of the provider's was live.
C4_SingleActiveSubscription ==
  /\ \A i \in 1..Len(subscriptions) : subscriptions[i].liveBefore = 0
  /\ Cardinality(LiveSubscriptions(subscriptions)) <= 1
  /\ disposeCalls = 0 =>
       /\ Len(subscriptions) = setCalls + 1
       /\ currentEventSubscription = Len(subscriptions)
       /\ LiveSubscriptions(subscriptions) = {Len(subscriptions)}
       /\ \A i \in 1..(Len(subscriptions) - 1) : subscriptions[i].disposeCalls = 1

\* Two setRunOnTheFly calls were made on a provider that was not disposed.
C4_Witness ==
  /\ setCalls >= 2
  /\ disposeCalls = 0
  /\ lastOp = "setRunOnTheFly"
  /\ Len(subscriptions) >= 3

\* C5 as claimed: on a live provider the new-subscriber hook of a channel has
\* fired exactly once, for the channel's first registration.
C5_HookFiresOncePerChannel ==
  \A e \in EventNames :
    (~emitterDisposed /\ registrations[e] # <<>>) =>
      hookCalls[e] = << registrations[e][1] >>

\* C5 amended: the new-subscriber hook of a channel fires once for every
\* registration on that channel, with that registration's callback, in
\* registration order, and never for a registration on the other channel.
C5_HookFiresPerRegistration ==
  \A e \in EventNames : hookCalls[e] = registrations[e]

\* A channel has two registrations and its hook has fired for the second.
C5_Witness ==
  /\ Len(registrations[UPDATE_EVENT]) >= 2
  /\ Len(hookCalls[UPDATE_EVENT]) >= 2
  /\ registrations[INVALIDATE_EVENT] # <<>>

\* C7: a dispose() call that directly follows a dispose() call changes nothing
\* and raises nothing, and no subscription is ever disposed more than once.
C7_SecondDisposeIsNoOp ==
  /\ [](\A i \in 1..Len(subscriptions) : subscriptions[i].disposeCalls <= 1)
  /\ [][(lastOp = "dispose" /\ disposeCalls' = disposeCalls + 1) =>
          /\ UNCHANGED <<allGrammarScopes, grammarScopes, subscriptions,
                         currentEventSubscription, emitterDisposed,
                         disposablesDisposed, handlers, registrations,
                         hookCalls, setCalls>>
          /\ threw' = FALSE]_vars

\* dispose() ran twice in a row on a provider with a subscriber; the
\* subscription made by the constructor was disposed once.
C7_Witness ==
  /\ disposeCalls = 2
  /\ setCalls = 0
  /\ lastOp = "dispose"
  /\ registrations[UPDATE_EVENT] # <<>>
  /\ subscriptions[1].disposeCalls = 1

\* Two DiagnosticsProviderBase instances on the one dispatcher.
InitSiblings ==
  /\ GutterConstructed(TRUE)
  /\ ProviderConstructed(FALSE, {}, FALSE)

NextSiblings ==
  \/ \E enableForAllGrammars \in BOOLEAN, shouldRunOnTheFly \in BOOLEAN :
       SiblingConstructed(enableForAllGrammars, {"source.js"},
                          shouldRunOnTheFly)
  \/ \E runOnTheFly \in BOOLEAN : SiblingSetRunOnTheFly(runOnTheFly)
  \/ SiblingDispose
  \/ \E callback \in Callbacks : SiblingOnMessageUpdate(callback)
  \/ \E runOnTheFly \in BOOLEAN :
       SiblingSteps < MaxSiblingSteps /\ SetRunOnTheFly(runOnTheFly)
  \/ SiblingSteps < MaxSiblingSteps /\ ProviderDispose
  \/ \E callback \in Callbacks :
       SiblingSteps < MaxSiblingSteps /\ OnMessageUpdate(callback)

SpecSiblings == InitSiblings /\ [][NextSiblings]_vars

-----------------------------------------------------------------------------
(* Properties of the channels (SpecChannels) *)

\* The callbacks none of whose handles on the event name was disposed.
UntouchedCallbacks(e) ==
  { cb \in Callbacks :
      \A k \in 1..Len(registrations[e]) :
        registrations[e][k] = cb => ~handleDisposed[e][k] }

\* The registrations of cb on the event name whose handle is not disposed.
UndisposedRegistrations(e, cb) ==
  { k \in 1..Len(registrations[e]) :
      registrations[e][k] = cb /\ ~handleDisposed[e][k] }

\* The callbacks the latest emit called, in call order.
DeliveredCallbacks ==
  [i \in 1..Len(lastPublish.deliveries) |-> lastPublish.deliveries[i].callback]

\* C11: on a live provider publishMessageUpdate(u) calls, with u, the callbacks
\* registered on the update channel, once per registration and in registration
\* order, and none that is registered on the invalidate channel only (and
\* symmetrically for publishMessageInvalidation); a disposed handle takes its
\* own callback off its own channel, and every other callback still receives.
C11_PublishDeliversToRegistered ==
  (lastOp = "publish" /\ ~emitterDisposed) =>
    LET e == lastPublish.event
        d == DeliveredCallbacks
        untouched == UntouchedCallbacks(e)
    IN /\ \A i \in 1..Len(lastPublish.deliveries) :
            lastPublish.deliveries[i].value = lastPublish.value
       /\ SelectSeq(d, LAMBDA cb : cb \in untouched)
            = SelectSeq(registrations[e], LAMBDA cb : cb \in untouched)
       /\ \A cb \in Callbacks \ untouched :
            Occurrences(d, cb) <= Cardinality(UndisposedRegistrations(e, cb))
       /\ SeqRange(d) \subseteq SeqRange(registrations[e])

\* An update was published after one of two update registrations was disposed
\* of, with a subscriber on the invalidate channel: one callback was called.
C11_Witness ==
  /\ lastOp = "publish"
  /\ ~emitterDisposed
  /\ lastPublish.event = UPDATE_EVENT
  /\ Len(registrations[UPDATE_EVENT]) = 2
  /\ handleDisposed[UPDATE_EVENT] = <<TRUE, FALSE>>
  /\ registrations[INVALIDATE_EVENT] # <<>>
  /\ Len(lastPublish.deliveries) = 1
  /\ lastPublish.deliveries[1].callback = registrations[UPDATE_EVENT][2]

\* C12: after dispose() a publication calls no callback, those registered
\* before dispose() included; a registration attempt throws before its hook;
\* and the event subscription is disposed.
C12_NoDeliveryAfterDispose ==
  disposeCalls >= 1 =>
    /\ lastOp = "publish" => lastPublish.deliveries = <<>>
    /\ lastOp = "onMessage" => threw
    /\ \A e \in EventNames : handlers[e] = <<>>
    /\ currentEventSubscription = 0
    /\ \A i \in 1..Len(subscriptions) : subscriptions[i].disposeCalls = 1

\* An update was published after dispose() on a provider that had an update
\* subscriber whose handle was never disposed.
C12_Witness ==
  /\ disposeCalls >= 1
  /\ lastOp = "publish"
  /\ lastPublish.event = UPDATE_EVENT
  /\ registrations[UPDATE_EVENT] # <<>>
  /\ \E k \in 1..Len(registrations[UPDATE_EVENT]) : ~handleDisposed[UPDATE_EVENT][k]

\* C15 as claimed: a publication made from inside the new-subscriber hook, on
\* the channel being subscribed to, reaches the handlers that were there
\* before the call and not the callback being added.
C15_HookPublicationSkipsNewCallback ==
  (lastPublish.fromHook /\ lastPublish.event = lastPublish.registering) =>
    Len(lastPublish.deliveries) = lastPublish.handlersBefore

\* C15 amended: the callback is registered on the channel before the hook is
\* invoked with it, so a publication made from inside the hook on that channel
\* is delivered to the callback being added, after the earlier handlers.
C15_HookPublicationReachesNewCallback ==
  (lastPublish.fromHook /\ lastPublish.event = lastPublish.registering) =>
    /\ Len(lastPublish.deliveries) = lastPublish.handlersBefore + 1
    /\ lastPublish.deliveries[Len(lastPublish.deliveries)]
         = [callback |-> lastPublish.callback, value |-> lastPublish.value]

\* A hook published on its own channel while the channel already had a handler.
C15_Witness ==
  /\ lastPublish.fromHook
  /\ lastPublish.event = lastPublish.registering
  /\ lastPublish.handlersBefore >= 1
  /\ Len(lastPublish.deliveries) >= 2

-----------------------------------------------------------------------------
(* Properties of the spinner and of destroy (SpecGutter) *)

\* The spinner is torn down: no timer armed, no flag, no element.
SpinnerIdle ==
  /\ timer # "armed"
  /\ ~loadingSpinnerIsPending
  /\ ~loadingSpinnerDiv

\* C13: once the fetch has resolved on a live gutter or destroy() has been
\* called, the spinner timer is cancelled and no spinner element is attached,
\* and from then on the timer callback never runs: no element is ever appended.
C13_NoSpinnerAfterTeardown ==
  /\ []((isDestroyed \/ passes >= 1) => SpinnerIdle)
  /\ [][(isDestroyed \/ passes >= 1) => spinnerAppends' = spinnerAppends]_vars

\* destroy() ran while the timer was still armed and the fetch in flight.
C13_Witness ==
  /\ isDestroyed
  /\ fetch = "pending"
  /\ timer = "cleared"
  /\ spinnerAppends = 0

\* C14 as claimed: after destroy() the map of decorations is empty, and the
\* gutter was destroyed exactly when the editor was not destroyed.
C14_DestroyClearsMap ==
  destroyCalls >= 1 => bufferLineToDecoration = EmptyMap

\* C19: the spinner is idle, pending (timer armed, no element) or visible
\* (element attached, timer fired); never a pending timer together with an
\* attached element, at most one timer and at most one element.
C19_SpinnerTriState ==
  /\ ~(loadingSpinnerIsPending /\ loadingSpinnerDiv)
  /\ loadingSpinnerIsPending <=> timer = "armed"
  /\ loadingSpinnerDiv => (timer = "fired" /\ spinnerAppends = 1)
  /\ spinnerAppends <= 1
  /\ timer \in {"armed", "fired", "cleared"}

\* The spinner is visible: the timer fired before the fetch settled.
C19_Witness ==
  /\ loadingSpinnerDiv
  /\ ~loadingSpinnerIsPending
  /\ timer = "fired"
  /\ fetch = "pending"

\* C20: while the fetch is unsettled and destroy() has not been called the
\* indicator is pending or visible, never idle; the step in which the fetch
\* resolves on a gutter not destroyed ends in Displaying: indicator idle and
\* the map keyed by exactly the lines of the resolved snapshot.
C20_LoadingThenDisplaying ==
  /\ []((fetch = "pending" /\ ~isDestroyed) =>
          (loadingSpinnerIsPending \/ loadingSpinnerDiv))
  /\ [][(~isDestroyed /\ fetch = "pending" /\ fetch' = "settled") =>
          /\ ~loadingSpinnerIsPending'
          /\ ~loadingSpinnerDiv'
          /\ timer' # "armed"
          /\ passes' = passes + 1
          /\ DOMAIN bufferLineToDecoration' = DOMAIN lastPass'.snapshot]_vars

\* The fetch resolved with a non-empty snapshot while the spinner was visible:
\* the element was removed and the map holds the snapshot's lines.
C20_Witness ==
  /\ ~isDestroyed
  /\ fetch = "settled"
  /\ passes = 1
  /\ spinnerAppends = 1
  /\ ~loadingSpinnerDiv
  /\ timer = "fired"
  /\ DOMAIN bufferLineToDecoration # {}

-----------------------------------------------------------------------------
(* Properties of the event subscription (SpecProvider) *)

\* C16: every subscription the provider obtained, the constructor's and the
\* one of each setRunOnTheFly(m), is on change events when the requested mode
\* is true and on save events otherwise, across any grammar when
\* enableForAllGrammars is set and on the configured scope set otherwise; the
\* scope set and the all-grammars flag never change.
C16_SubscriptionKind ==
  /\ [](\A i \in 1..Len(subscriptions) :
          /\ subscriptions[i].kind
               = (IF subscriptions[i].requested THEN "change" ELSE "save")
          /\ subscriptions[i].any = allGrammarScopes
          /\ subscriptions[i].scopes
               = (IF allGrammarScopes THEN {} ELSE grammarScopes))
  /\ [][/\ allGrammarScopes' = allGrammarScopes
        /\ grammarScopes' = grammarScopes]_vars

\* A provider filtered to a scope set was constructed for save events and then
\* switched to change events.
C16_Witness ==
  /\ ~allGrammarScopes
  /\ grammarScopes = {"source.js"}
  /\ lastOp = "setRunOnTheFly"
  /\ Len(subscriptions) = 2
  /\ subscriptions[1].kind = "save"
  /\ subscriptions[2].kind = "change"
  /\ subscriptions[2].scopes = {"source.js"}
  /\ currentEventSubscription = 2

\* C18 as claimed: once dispose() has been called the provider holds no
\* active event subscription and none of its subscriptions is live.
C18_NoSubscriptionAfterDispose ==
  disposeCalls >= 1 =>
    /\ currentEventSubscription = 0
    /\ LiveSubscriptions(subscriptions) = {}

-----------------------------------------------------------------------------
(* Properties of two providers on one dispatcher (SpecSiblings) *)

\* The subscriptions the dispatcher handed to the first provider.
OwnedByProvider == (1..Len(subscriptions)) \ sibling.owned

\* C17: setRunOnTheFly or dispose on one provider changes no subscription the
\* dispatcher handed to the other, and neither the other's active subscription
\* nor its channel subscribers; each provider's active subscription is one of
\* its own.
C17_SiblingsUntouched ==
  /\ [](/\ sibling.current # 0 => sibling.current \in sibling.owned
        /\ currentEventSubscription # 0 =>
             currentEventSubscription \in OwnedByProvider)
  /\ [][/\ (setCalls' # setCalls \/ disposeCalls' # disposeCalls) =>
             /\ sibling' = sibling
             /\ \A i \in sibling.owned : subscriptions'[i] = subscriptions[i]
        /\ (sibling.constructed /\ sibling'.calls # sibling.calls) =>
             /\ currentEventSubscription' = currentEventSubscription
             /\ handlers' = handlers
             /\ \A i \in OwnedByProvider :
                  subscriptions'[i] = subscriptions[i]]_vars

\* The first provider was disposed after a setRunOnTheFly of the sibling; the
\* sibling still has its live subscription and its update subscriber.
C17_Witness ==
  /\ sibling.constructed
  /\ lastOp = "dispose"
  /\ disposeCalls = 1
  /\ sibling.lastOp = "setRunOnTheFly"
  /\ sibling.current # 0
  /\ subscriptions[sibling.current].disposeCalls = 0
  /\ sibling.handlers[UPDATE_EVENT] # <<>>
  /\ subscriptions[1].disposeCalls = 1

====
